---- MODULE Spec2Model ----
(***************************************************************************)
(* useFormState (src/src/index.ts): a React hook whose returned state      *)
(* follows the `initialState` argument of every render until setState is   *)
(* called, and is frozen from then on until reset is called.               *)
(*                                                                         *)
(* index.ts holds two implementations of the hook.  Both are modelled and  *)
(* run side by side on the same renders and the same calls:                *)
(*   1  lines 14-49,  built on React.useState   (variables ending in 1)    *)
(*   2  lines 84-135, built on React.useReducer (variables ending in 2)    *)
(*                                                                         *)
(* The host (React) is modelled by what the hooks rely on: a render calls  *)
(* the hook with the current argument, the updates queued by setFormState  *)
(* / dispatch since the previous render are folded in call order during    *)
(* the render, and useCallback keeps a callback while its dependencies are *)
(* unchanged.                                                              *)
(***************************************************************************)
EXTENDS Integers, Sequences, FiniteSets, TLC

\* Bounds of the model.
MaxVal == 7      \* a call whose stored value could exceed MaxVal is not made
MaxQueue == 2    \* calls of setState / reset between two renders

\* The inputs: the external values a render is given, and the plain values
\* setState is given (one of them an external value, one of them not).
ExtValues == {0, 1}
PlainValues == {1, 5}
MaxExt == CHOOSE m \in ExtValues : \A v \in ExtValues : v <= m
Values == 0..MaxVal

\* The functions a caller passes: a zero-argument initialState, which
\* returns a value or throws, and the updaters prev => prev + 1 and
\* prev => prev * 2.
Updaters == {"inc", "dbl"}

Literal(v) == [kind |-> "value", value |-> v]
Thunk(v) == [kind |-> "function", name |-> "thunk", returns |-> v]
Faulty == [kind |-> "function", name |-> "faulty"]
UpdaterFn(n) == [kind |-> "function", name |-> n]

\* What a render may be given as initialState, and setState as value.
InitialStates ==
  {Literal(v) : v \in ExtValues} \cup {Thunk(v) : v \in ExtValues} \cup {Faulty}
Payloads == {Literal(v) : v \in PlainValues} \cup {UpdaterFn(n) : n \in Updaters}

\* Calling a function value with the arguments args.
Call(fn, args) ==
  CASE fn.name = "thunk" -> fn.returns
    [] fn.name = "inc" -> args[1] + 1
    [] fn.name = "dbl" -> args[1] * 2

\* Calling fn ends with a fault instead of a value.
Throws(fn) == fn.name = "faulty"

\* What leaves a call of the hook besides its tuple: nothing, or the fault of
\* the initialState function.
NoFault == "none"
InitialStateFault == "initialState"

\* index.ts:10-12
unwrap1(valueOrFn, args) ==
  IF valueOrFn.kind = "function" THEN Call(valueOrFn, args) ELSE valueOrFn.value

\* index.ts:70-74
unwrap2(valueOrFunction, args) ==
  IF valueOrFunction.kind = "function"
  THEN Call(valueOrFunction, args)
  ELSE valueOrFunction.value

\* FormState: { isChanged: false } | { isChanged: true, value }
Unchanged == [isChanged |-> FALSE]
Changed(v) == [isChanged |-> TRUE, value |-> v]

VARIABLES
  mounted,        \* the component instance has rendered at least once
  initialState,   \* the argument of the latest render that returned
  formState,      \* 1: the state of React.useState
  queue1,         \* 1: updates given to setFormState since the latest render
  callbacks1,     \* 1: the useCallback cells of setState and reset
  returned1,      \* 1: the tuple the latest render returned
  state,          \* 2: the state of React.useReducer
  queue2,         \* 2: actions dispatched since the latest render
  callbacks2,     \* 2: the useCallback cells of setState and reset
  returned2,      \* 2: the tuple the latest render returned
  \* History of the run, read by the properties only.
  touched,        \* setState or reset has been called since the mount
  overriding,     \* setState has been called, and reset has not since
  frozen,         \* {x} while setState(x), x plain, is the latest call; else {}
  began,          \* {v}: the latest call of setState that was not overriding
                  \*   followed a render with external value v
  raced,          \* the latest calls were processed by a render whose
                  \*   external value differed from the one before
  calls,          \* the calls since the latest render, in call order
  batch,          \* the calls the latest render processed, in call order
  before1,        \* 1: formState when the latest render started
  before2,        \* 2: state when the latest render started
  prevValue,      \* the external value of the render before the latest
  mountHandles1,  \* 1: the handles the first render returned
  mountHandles2,  \* 2: the handles the first render returned
  fault1,         \* 1: the fault the latest call of the hook ended with
  fault2,         \* 2: the fault the latest call of the hook ended with
  thunkCalls1,    \* 1: calls of the initialState function in that call
  thunkCalls2,    \* 2: calls of the initialState function in that call
  lost1,          \* 1: the state the previous instance was destroyed with
  lost2,          \* 2: the state the previous instance was destroyed with
  held1,          \* 1: the setState callback of the render before the latest
  held2           \* 2: the setState callback of the render before the latest

impl1 == <<formState, queue1, callbacks1, returned1>>
impl2 == <<state, queue2, callbacks2, returned2>>
history == <<touched, overriding, frozen, began, raced, calls, batch,
             before1, before2, prevValue, mountHandles1, mountHandles2>>
outcome == <<fault1, fault2, thunkCalls1, thunkCalls2>>
previous == <<lost1, lost2, held1, held2>>
vars == <<mounted, initialState, impl1, impl2, history, outcome, previous>>

\* The external value an argument of the hook stands for, and that of the
\* latest render.
Resolved(arg) == IF arg.kind = "function" THEN arg.returns ELSE arg.value
ExternalValue == Resolved(initialState)

(***************************************************************************)
(* React, as far as the hooks use it.                                      *)
(***************************************************************************)

\* The identity of a newly created function: one no live function has.
Fresh(taken) == CHOOSE n \in 0..Cardinality(taken) : n \notin taken

\* React.useCallback(callback, deps): the callback of the render that created
\* the cell is kept, with the variables it closed over (env), while deps are
\* unchanged; otherwise this render's callback replaces it.
UseCallback(isMount, cell, deps, env, taken) ==
  IF ~isMount /\ cell.deps = deps
  THEN cell
  ELSE [id |-> Fresh(taken), deps |-> deps, env |-> env]

\* The dispatch function of React.useReducer is the same on every render.
dispatch == "dispatch"

(***************************************************************************)
(* Implementation 1, index.ts:14-49.                                       *)
(***************************************************************************)

\* index.ts:25-35, the updater setState hands to setFormState.  value and
\* unwrappedInitialState are the variables the updater closed over.
updater1(prevState, value, unwrappedInitialState) ==
  LET newValue == unwrap1(value, <<IF prevState.isChanged
                                   THEN prevState.value
                                   ELSE unwrappedInitialState>>)
  IN  [isChanged |-> TRUE, value |-> newValue]

\* index.ts:23-38, a call of the setState callback cb: one update is queued.
setState1(cb, value) ==
  [kind |-> "updater", value |-> value,
   unwrappedInitialState |-> cb.env.unwrappedInitialState]

\* index.ts:40-43, a call of reset: the next state itself is queued.
reset1 == [kind |-> "state", next |-> [isChanged |-> FALSE]]

\* index.ts:19-21, React.useState on a re-render: the queued updates are
\* applied in the order of the calls, an updater to the state before it.
\* (React may run the first updater of an empty queue already at the call;
\* the updater reads nothing but its argument and its closure, so the state
\* it gives is the same.)
RECURSIVE useState1(_, _)
useState1(prevState, updates) ==
  IF updates = <<>>
  THEN prevState
  ELSE LET u == Head(updates)
       IN  useState1(IF u.kind = "updater"
                     THEN updater1(prevState, u.value, u.unwrappedInitialState)
                     ELSE u.next,
                     Tail(updates))

\* index.ts:37, the dependencies of setState.
setStateDeps1(unwrappedInitialState) == <<unwrappedInitialState>>

\* index.ts:43, the dependencies of reset.
resetDeps1(unwrappedInitialState) == <<>>

\* Mutant of result1: an external value that changed since the previous
\* render wins over the override, as a synchronising effect would have it.
result1_sync(fs, unwrappedInitialState) ==
  IF /\ fs.isChanged
     /\ callbacks1.setState.env.unwrappedInitialState = unwrappedInitialState
  THEN fs.value
  ELSE unwrappedInitialState

\* index.ts:48, the first element of the returned tuple.
result1(fs, unwrappedInitialState) ==
  IF fs.isChanged THEN fs.value ELSE unwrappedInitialState

\* index.ts:17, unwrap(initialState) with no try around it: a fault of the
\* initialState function leaves the hook as it is, before any hook of React
\* has run.
propagated1(arg) ==
  IF arg.kind = "function" /\ Throws(arg) THEN InitialStateFault ELSE NoFault

\* index.ts:17, the calls of the initialState function in one call of the
\* hook: unwrap(initialState) runs once, whatever the state.
resolutions1(arg, fs) == IF arg.kind = "function" THEN 1 ELSE 0

\* index.ts:45-48, the updates a render itself gives to setFormState: none,
\* the hook registers no effect and calls setFormState only from setState and
\* reset.
scheduled1(unwrappedInitialState) == <<>>

\* index.ts:14-49, one call of the hook.
useFormState1(arg, isMount, fs, updates, cells, mountHandles) ==
  IF propagated1(arg) # NoFault
  THEN [fault |-> propagated1(arg), thunkCalls |-> resolutions1(arg, fs)]
  ELSE
  LET unwrappedInitialState == unwrap1(arg, <<>>)
      newFormState == useState1(fs, updates)
      setState == UseCallback(isMount, cells.setState,
                              setStateDeps1(unwrappedInitialState),
                              [unwrappedInitialState |-> unwrappedInitialState],
                              IF isMount THEN {}
                              ELSE {cells.setState.id, mountHandles.setState})
      reset == UseCallback(isMount, cells.reset, resetDeps1(unwrappedInitialState), <<>>,
                           IF isMount THEN {}
                           ELSE {cells.reset.id, mountHandles.reset})
  IN  [fault |-> NoFault,
       thunkCalls |-> resolutions1(arg, fs),
       formState |-> newFormState,
       queue |-> scheduled1(unwrappedInitialState),
       callbacks |-> [setState |-> setState, reset |-> reset],
       returned  |-> [state |-> result1(newFormState, unwrappedInitialState),
                      setState |-> setState.id,
                      reset |-> reset.id]]

(***************************************************************************)
(* Implementation 2, index.ts:84-135.                                      *)
(***************************************************************************)

\* Mutant of reducer: RESET keeps the override.
reducer_keep(st, action, initialStateValue) ==
  CASE action.type = "SET_STATE" ->
         [isChanged |-> TRUE,
          value |-> unwrap2(action.payload,
                            <<IF st.isChanged THEN st.value ELSE initialStateValue>>)]
    [] action.type = "RESET" -> st

\* Mutant of reducer: SET_STATE to the value already shown changes nothing.
reducer_bail(st, action, initialStateValue) ==
  LET current == IF st.isChanged THEN st.value ELSE initialStateValue
  IN  CASE action.type = "SET_STATE" ->
             IF unwrap2(action.payload, <<current>>) = current
             THEN st
             ELSE [isChanged |-> TRUE,
                   value |-> unwrap2(action.payload, <<current>>)]
        [] action.type = "RESET" -> [isChanged |-> FALSE]

\* index.ts:90-102, the reducer of the render whose initialStateValue it
\* closed over.
reducer(st, action, initialStateValue) ==
  CASE action.type = "SET_STATE" ->
         [isChanged |-> TRUE,
          value |-> unwrap2(action.payload,
                            <<IF st.isChanged THEN st.value ELSE initialStateValue>>)]
    [] action.type = "RESET" -> [isChanged |-> FALSE]

\* index.ts:113-121, a call of setState: one action is dispatched.
setState2(value) == [type |-> "SET_STATE", payload |-> value]

\* index.ts:123-127, a call of reset.
reset2 == [type |-> "RESET"]

\* Mutant of useReducer2: every action is reduced from the state the render
\* started with, so the last one wins over a stale snapshot.
useReducer2_stale(st, actions, initialStateValue) ==
  IF actions = <<>>
  THEN st
  ELSE reducer(st, actions[Len(actions)], initialStateValue)

\* Mutant of useReducer2: a changed external value replaces the state, as a
\* synchronising effect would have it.
RECURSIVE useReducer2_clobber(_, _, _)
useReducer2_clobber(st, actions, initialStateValue) ==
  IF initialStateValue # ExternalValue
  THEN [isChanged |-> FALSE]
  ELSE IF actions = <<>>
       THEN st
       ELSE useReducer2_clobber(reducer(st, Head(actions), initialStateValue),
                                Tail(actions), initialStateValue)

\* index.ts:89-106, React.useReducer on a re-render: the dispatched actions are
\* reduced in the order of the calls by the reducer passed to this render.
RECURSIVE useReducer2(_, _, _)
useReducer2(st, actions, initialStateValue) ==
  IF actions = <<>>
  THEN st
  ELSE useReducer2(reducer(st, Head(actions), initialStateValue),
                   Tail(actions), initialStateValue)

\* index.ts:120, the dependencies of setState.
setStateDeps2(initialStateValue) == <<dispatch>>

\* Mutant of resetDeps2: reset depends on the external value.
resetDeps2_value(initialStateValue) == <<dispatch, initialStateValue>>

\* index.ts:127, the dependencies of reset.
resetDeps2(initialStateValue) == <<dispatch>>

\* Mutant of result2: the argument is read on the mount only, as
\* React.useState(initialState) would.
result2_mountOnly(st, initialStateValue) ==
  IF st.isChanged THEN st.value
  ELSE IF mounted THEN returned2.state ELSE initialStateValue

\* index.ts:134, the first element of the returned tuple.
result2(st, initialStateValue) ==
  IF st.isChanged THEN st.value ELSE initialStateValue

\* Mutant of propagated2: the hook catches the fault and raises its own.
propagated2_wrapped(arg) ==
  IF arg.kind = "function" /\ Throws(arg) THEN "useFormState" ELSE NoFault

\* index.ts:87, unwrap(initialState) with no try around it: a fault of the
\* initialState function leaves the hook as it is, before any hook of React
\* has run.
propagated2(arg) ==
  IF arg.kind = "function" /\ Throws(arg) THEN InitialStateFault ELSE NoFault

\* Mutant of resolutions2: initialState is resolved only while tracking.
resolutions2_lazy(arg, st) ==
  IF arg.kind = "function" /\ ~st.isChanged THEN 1 ELSE 0

\* index.ts:87, the calls of the initialState function in one call of the
\* hook: unwrap(initialState) runs once, whatever the state.
resolutions2(arg, st) == IF arg.kind = "function" THEN 1 ELSE 0

\* Mutant of scheduled2: an effect keyed on the external value stores it in
\* the state whenever it differs from that of the render before.
scheduled2_effect(initialStateValue) ==
  IF mounted /\ initialStateValue # ExternalValue
  THEN <<[type |-> "SET_STATE", payload |-> Literal(initialStateValue)]>>
  ELSE <<>>

\* index.ts:129-134, the actions a render itself dispatches: none, the hook
\* registers no effect and dispatches only from setState and reset.
scheduled2(initialStateValue) == <<>>

\* index.ts:84-135, one call of the hook.
useFormState2(arg, isMount, st, actions, cells, mountHandles) ==
  IF propagated2(arg) # NoFault
  THEN [fault |-> propagated2(arg), thunkCalls |-> resolutions2(arg, st)]
  ELSE
  LET initialStateValue == unwrap2(arg, <<>>)
      newState == useReducer2(st, actions, initialStateValue)
      setState == UseCallback(isMount, cells.setState,
                              setStateDeps2(initialStateValue), <<>>,
                              IF isMount THEN {}
                              ELSE {cells.setState.id, mountHandles.setState})
      reset == UseCallback(isMount, cells.reset, resetDeps2(initialStateValue), <<>>,
                           IF isMount THEN {}
                           ELSE {cells.reset.id, mountHandles.reset})
  IN  [fault |-> NoFault,
       thunkCalls |-> resolutions2(arg, st),
       state |-> newState,
       queue |-> scheduled2(initialStateValue),
       callbacks |-> [setState |-> setState, reset |-> reset],
       returned  |-> [state |-> result2(newState, initialStateValue),
                      setState |-> setState.id,
                      reset |-> reset.id]]

(***************************************************************************)
(* The component instance.                                                 *)
(***************************************************************************)

NoCell == [id |-> 0, deps |-> <<>>, env |-> <<>>]
NoCells == [setState |-> NoCell, reset |-> NoCell]
NoTuple == [state |-> 0, setState |-> 0, reset |-> 0]
NoHandles == [setState |-> 0, reset |-> 0]

\* index.ts:19-21, the argument of React.useState: the state a new instance
\* starts with.
initialFormState1 == [isChanged |-> FALSE]

\* Mutant of initialReducerState2: the state is kept outside the instance and
\* a new instance starts with what the previous one left.
initialReducerState2_kept == IF mounted THEN state ELSE lost2

\* index.ts:103-105, the second argument of React.useReducer: the state a
\* new instance starts with.
initialReducerState2 == [isChanged |-> FALSE]

\* The instance exists and has not rendered: no hook has run, nothing was
\* returned, so no handle can be called yet.
Init ==
  /\ mounted = FALSE
  /\ initialState = Literal(0)
  /\ lost1 = Unchanged
  /\ lost2 = Unchanged
  /\ held1 = NoCell
  /\ held2 = NoCell
  /\ formState = initialFormState1
  /\ queue1 = <<>>
  /\ callbacks1 = NoCells
  /\ returned1 = NoTuple
  /\ state = initialReducerState2
  /\ queue2 = <<>>
  /\ callbacks2 = NoCells
  /\ returned2 = NoTuple
  /\ touched = FALSE
  /\ overriding = FALSE
  /\ calls = <<>>
  /\ frozen = {}
  /\ began = {}
  /\ raced = FALSE
  /\ batch = <<>>
  /\ before1 = Unchanged
  /\ before2 = Unchanged
  /\ prevValue = 0
  /\ mountHandles1 = NoHandles
  /\ mountHandles2 = NoHandles
  /\ fault1 = NoFault
  /\ fault2 = NoFault
  /\ thunkCalls1 = 0
  /\ thunkCalls2 = 0

\* React renders the component with initialState = arg: each implementation
\* of the hook runs once, on the updates queued since the previous render.
Returned(arg) ==
  LET isMount == ~mounted
      r1 == useFormState1(arg, isMount, formState, queue1, callbacks1, mountHandles1)
      r2 == useFormState2(arg, isMount, state, queue2, callbacks2, mountHandles2)
  IN  /\ mounted' = TRUE
      /\ initialState' = arg
      /\ formState' = r1.formState
      /\ queue1' = r1.queue
      /\ callbacks1' = r1.callbacks
      /\ returned1' = r1.returned
      /\ state' = r2.state
      /\ queue2' = r2.queue
      /\ callbacks2' = r2.callbacks
      /\ returned2' = r2.returned
      /\ mountHandles1' = IF isMount
                          THEN [setState |-> r1.returned.setState,
                                reset |-> r1.returned.reset]
                          ELSE mountHandles1
      /\ mountHandles2' = IF isMount
                          THEN [setState |-> r2.returned.setState,
                                reset |-> r2.returned.reset]
                          ELSE mountHandles2
      /\ calls' = <<>>
      /\ batch' = calls
      /\ before1' = formState
      /\ before2' = state
      /\ prevValue' = IF isMount THEN Resolved(arg) ELSE ExternalValue
      /\ raced' = IF calls = <<>> THEN raced ELSE Resolved(arg) # ExternalValue
      /\ fault1' = NoFault
      /\ fault2' = NoFault
      /\ thunkCalls1' = r1.thunkCalls
      /\ thunkCalls2' = r2.thunkCalls
      /\ held1' = IF isMount THEN r1.callbacks.setState ELSE callbacks1.setState
      /\ held2' = IF isMount THEN r2.callbacks.setState ELSE callbacks2.setState
      /\ UNCHANGED <<touched, overriding, frozen, began, lost1, lost2>>

\* The call of the hook ends with a fault: the render is abandoned.  No hook
\* of React has run, so the state, the pending updates and the tuple of the
\* latest render that returned are as they were; the fault is the host's to
\* handle (by rendering again or by destroying the instance).
Thrown(arg) ==
  LET isMount == ~mounted
      r1 == useFormState1(arg, isMount, formState, queue1, callbacks1, mountHandles1)
      r2 == useFormState2(arg, isMount, state, queue2, callbacks2, mountHandles2)
  IN  /\ fault1' = r1.fault
      /\ fault2' = r2.fault
      /\ thunkCalls1' = r1.thunkCalls
      /\ thunkCalls2' = r2.thunkCalls
      /\ batch' = <<>>
      /\ before1' = formState
      /\ before2' = state
      /\ prevValue' = ExternalValue
      /\ UNCHANGED <<mounted, initialState, impl1, impl2, touched, overriding,
                     frozen, began, raced, calls, mountHandles1, mountHandles2,
                     previous>>

Render(arg) ==
  IF \/ useFormState1(arg, ~mounted, formState, queue1, callbacks1,
                      mountHandles1).fault # NoFault
     \/ useFormState2(arg, ~mounted, state, queue2, callbacks2,
                      mountHandles2).fault # NoFault
  THEN Thrown(arg)
  ELSE Returned(arg)


\* Every value a pending setState can store stays in Values, whatever the
\* next render is given (the updaters are increasing, so MaxExt decides).
InRange(updates, actions) ==
  LET s1 == useState1(formState, updates)
      s2 == useReducer2(state, actions, MaxExt)
  IN  /\ s1.isChanged => s1.value \in Values
      /\ s2.isChanged => s2.value \in Values

\* What a call leaves of the history of the latest render: the caller has
\* moved on from the tuple that render returned, and from the callbacks of
\* the renders before it.
CallHistory ==
  /\ touched' = TRUE
  /\ batch' = <<>>
  /\ before1' = formState
  /\ before2' = state
  /\ prevValue' = ExternalValue
  /\ lost1' = Unchanged
  /\ lost2' = Unchanged
  /\ held1' = callbacks1.setState
  /\ held2' = callbacks2.setState
  /\ UNCHANGED <<raced, mountHandles1, mountHandles2>>

\* An event handler calls the setState of the latest render with value.
SetState(value) ==
  /\ mounted
  /\ fault1 = NoFault /\ fault2 = NoFault
  /\ Len(queue2) < MaxQueue
  /\ InRange(Append(queue1, setState1(callbacks1.setState, value)),
             Append(queue2, setState2(value)))
  /\ queue1' = Append(queue1, setState1(callbacks1.setState, value))
  /\ queue2' = Append(queue2, setState2(value))
  /\ calls' = Append(calls, [op |-> "setState", value |-> value])
  /\ overriding' = TRUE
  /\ frozen' = IF value.kind = "value" THEN {value.value} ELSE {}
  /\ began' = IF overriding THEN began ELSE {ExternalValue}
  /\ CallHistory
  /\ UNCHANGED <<mounted, initialState, formState, callbacks1, returned1,
                 state, callbacks2, returned2, outcome>>

\* An event handler calls the reset of the latest render.
Reset ==
  /\ mounted
  /\ fault1 = NoFault /\ fault2 = NoFault
  /\ Len(queue2) < MaxQueue
  /\ queue1' = Append(queue1, reset1)
  /\ queue2' = Append(queue2, reset2)
  /\ calls' = Append(calls, [op |-> "reset"])
  /\ overriding' = FALSE
  /\ frozen' = {}
  /\ began' = began
  /\ CallHistory
  /\ UNCHANGED <<mounted, initialState, formState, callbacks1, returned1,
                 state, callbacks2, returned2, outcome>>

\* React destroys the instance, with its hook state, its pending updates and
\* its callbacks; the component may be mounted again, as a new instance whose
\* hooks start from their initial arguments.
Unmount ==
  /\ mounted
  /\ mounted' = FALSE
  /\ initialState' = Literal(0)
  /\ formState' = initialFormState1
  /\ queue1' = <<>>
  /\ callbacks1' = NoCells
  /\ returned1' = NoTuple
  /\ state' = initialReducerState2
  /\ queue2' = <<>>
  /\ callbacks2' = NoCells
  /\ returned2' = NoTuple
  /\ touched' = FALSE
  /\ overriding' = FALSE
  /\ calls' = <<>>
  /\ frozen' = {}
  /\ began' = {}
  /\ raced' = FALSE
  /\ batch' = <<>>
  /\ before1' = Unchanged
  /\ before2' = Unchanged
  /\ prevValue' = 0
  /\ mountHandles1' = NoHandles
  /\ mountHandles2' = NoHandles
  /\ fault1' = NoFault
  /\ fault2' = NoFault
  /\ thunkCalls1' = 0
  /\ thunkCalls2' = 0
  /\ lost1' = formState
  /\ lost2' = state
  /\ held1' = NoCell
  /\ held2' = NoCell

Next ==
  \/ \E arg \in InitialStates : Render(arg)
  \/ \E value \in Payloads : SetState(value)
  \/ Reset
  \/ Unmount

Spec == Init /\ [][Next]_vars

(***************************************************************************)
(* The contract of the hook, in the terms of its specification.            *)
(***************************************************************************)

\* The effective value of an override state under external value ext.
Effective(st, ext) == IF st.isChanged THEN st.value ELSE ext

\* The override state after one call, for tracking value ext.
AfterCall(st, c, ext) ==
  IF c.op = "reset"
  THEN [isChanged |-> FALSE]
  ELSE [isChanged |-> TRUE,
        value |-> IF c.value.kind = "function"
                  THEN Call(c.value, <<Effective(st, ext)>>)
                  ELSE c.value.value]

RECURSIVE AfterCalls(_, _, _)
AfterCalls(st, cs, ext) ==
  IF cs = <<>> THEN st
  ELSE AfterCalls(AfterCall(st, Head(cs), ext), Tail(cs), ext)

Front(seq) == SubSeq(seq, 1, Len(seq) - 1)
Last(seq) == seq[Len(seq)]

\* The latest render has processed every call made so far.
Settled == mounted /\ calls = <<>>

\* C1: while neither setState nor reset has been called, the effective value
\* every render returns is the external value passed to that same render.
C1_TrackingFidelity ==
  (mounted /\ ~touched) =>
    /\ returned1.state = ExternalValue
    /\ returned2.state = ExternalValue

\* C1 witness: a re-render with a changed external value, before any call.
C1_Witness ==
  /\ mounted /\ ~touched
  /\ prevValue # ExternalValue
  /\ returned1.state = ExternalValue
  /\ returned2.state = ExternalValue

\* C2: once setState(x) with a plain x is the latest call, every render
\* returns x, whatever external value it is given, until reset is called.
C2_OverrideFreeze ==
  Settled =>
    \A x \in frozen : returned1.state = x /\ returned2.state = x

\* C2 witness: a later render, with no call of its own and another external
\* value than the override started from, still returns x.
C2_Witness ==
  /\ Settled /\ batch = <<>>
  /\ frozen = {5} /\ began = {0} /\ ExternalValue = 1
  /\ returned1.state = 5 /\ returned2.state = 5

\* C3: the render that follows reset returns the external value passed to
\* that render.
C3_ResetResumes ==
  (mounted /\ batch # <<>> /\ Last(batch).op = "reset") =>
    /\ returned1.state = ExternalValue
    /\ returned2.state = ExternalValue

\* C3 witness: reset discards an override x, and the external value of the
\* next render differs from x and from the one the override started from.
C3_Witness ==
  /\ mounted /\ batch = <<[op |-> "reset"]>>
  /\ before1.isChanged /\ before2.isChanged
  /\ before2.value # ExternalValue
  /\ began # {} /\ ExternalValue \notin began
  /\ returned1.state = ExternalValue
  /\ returned2.state = ExternalValue

IsFn(c) == c.op = "setState" /\ c.value.kind = "function"
IsPlain(c) == c.op = "setState" /\ c.value.kind = "value"

\* C4, for one implementation: when the last call a render processed is
\* setState(f), the render returns f of the effective value before that call:
\* the override the earlier calls left, or else the tracking value.
C4_For(ret, bef) ==
  (mounted /\ batch # <<>> /\ IsFn(Last(batch))) =>
    ret.state = Call(Last(batch).value,
                     <<Effective(AfterCalls(bef, Front(batch), ExternalValue),
                                 ExternalValue)>>)

C5_For(ret, bef) ==
  mounted =>
    \A k \in 1..Len(batch) :
      (/\ IsFn(batch[k])
       /\ ~AfterCalls(bef, SubSeq(batch, 1, k - 1), ExternalValue).isChanged)
      => ret.state =
           Effective(AfterCalls([isChanged |-> TRUE,
                                 value |-> Call(batch[k].value, <<ExternalValue>>)],
                                SubSeq(batch, k + 1, Len(batch)),
                                ExternalValue),
                     ExternalValue)

\* C5: the function payload of setState is called with the effective value at
\* the time the call is processed: the latest external value when tracking,
\* never the one of an earlier render.
C5_LatestExternalValue ==
  /\ C5_For(returned1, before1)
  /\ C5_For(returned2, before2)

\* C6: every render returns the setState handle the first render returned.
C6_SetStateStable ==
  mounted =>
    /\ returned1.setState = mountHandles1.setState
    /\ returned2.setState = mountHandles2.setState

\* C7: every render returns the reset handle the first render returned.
C7_ResetStable ==
  mounted =>
    /\ returned1.reset = mountHandles1.reset
    /\ returned2.reset = mountHandles2.reset

\* C7 witness: a render that processed calls and was given another external
\* value than the render before returns the reset of the mount.
C7_Witness ==
  /\ mounted /\ batch # <<>>
  /\ prevValue # ExternalValue
  /\ returned1.reset = mountHandles1.reset
  /\ returned2.reset = mountHandles2.reset

\* The first call of the run of function calls that ends cs.
RunStart(cs) ==
  CHOOSE j \in 1..(Len(cs) + 1) :
    /\ \A i \in j..Len(cs) : IsFn(cs[i])
    /\ j = 1 \/ ~IsFn(cs[j - 1])

RECURSIVE ApplyAll(_, _)
ApplyAll(cs, v) ==
  IF cs = <<>> THEN v ELSE ApplyAll(Tail(cs), Call(Head(cs).value, <<v>>))

\* C8, for one implementation: the function calls that end a batch are
\* composed in call order on the value before the first of them: the
\* override, or with no override the tracking value (the claim leaves open
\* which render's; C5 is about that).
C8_For(ret, bef) ==
  LET j == RunStart(batch)
      run == SubSeq(batch, j, Len(batch))
      base == AfterCalls(bef, SubSeq(batch, 1, j - 1), ExternalValue)
  IN  (mounted /\ run # <<>>) =>
        IF base.isChanged
        THEN ret.state = ApplyAll(run, base.value)
        ELSE \E t \in {prevValue, ExternalValue} : ret.state = ApplyAll(run, t)

\* C8: batched function updates compose in call order; n calls of
\* setState(prev => prev + 1) on an override v give v + n.
C8_BatchedCompose ==
  /\ C8_For(returned1, before1)
  /\ C8_For(returned2, before2)

\* C8 witness: two calls of prev => prev + 1 in one batch on an override of
\* 5 give 7.
C8_Witness ==
  /\ mounted
  /\ before1 = [isChanged |-> TRUE, value |-> 5]
  /\ before2 = [isChanged |-> TRUE, value |-> 5]
  /\ batch = <<[op |-> "setState", value |-> UpdaterFn("inc")],
               [op |-> "setState", value |-> UpdaterFn("inc")]>>
  /\ returned1.state = 7 /\ returned2.state = 7

\* C9: setState always leaves an override, also when the value it stores is
\* the value already shown; from then on the stored value is returned, not
\* the external one.
C9_UnconditionalOverride ==
  /\ (mounted /\ batch # <<>> /\ Last(batch).op = "setState") =>
       formState.isChanged /\ state.isChanged
  /\ (Settled /\ overriding) =>
       /\ formState.isChanged /\ state.isChanged
       /\ returned1.state = formState.value
       /\ returned2.state = state.value
       /\ \A x \in frozen : formState.value = x /\ state.value = x

\* C9 witness: setState(1) while tracking external value 1, processed by a
\* render given 0: the render returns 1.
C9_Witness ==
  /\ mounted
  /\ batch = <<[op |-> "setState", value |-> Literal(1)]>>
  /\ ~before1.isChanged /\ ~before2.isChanged
  /\ prevValue = 1 /\ ExternalValue = 0
  /\ formState.isChanged /\ state.isChanged
  /\ returned1.state = 1 /\ returned2.state = 1

\* C10: when setState(x) is called and the external value changes before the
\* next render, that render and the following ones return x.
C10_NoClobber ==
  /\ (mounted /\ batch # <<>> /\ IsPlain(Last(batch)) /\ prevValue # ExternalValue) =>
       /\ returned1.state = Last(batch).value.value
       /\ returned2.state = Last(batch).value.value
  /\ (Settled /\ raced) =>
       \A x \in frozen : returned1.state = x /\ returned2.state = x

\* C10 witness: a render after the one that processed setState(5) together
\* with a changed external value still returns 5.
C10_Witness ==
  /\ Settled /\ batch = <<>> /\ raced
  /\ frozen = {5}
  /\ returned1.state = 5 /\ returned2.state = 5

\* C11: the override tag changes only through the operations.  A step makes
\* Tracking Overridden only by processing a call of setState, Overridden
\* Tracking only by processing a call of reset (or by destroying the
\* instance), and a render with no pending call, whatever external value it
\* is given, leaves the tag and the stored value as they are.
C11_TagFrame ==
  [][/\ (~formState.isChanged /\ formState'.isChanged) =>
          \E i \in 1..Len(calls) : calls[i].op = "setState"
     /\ (~state.isChanged /\ state'.isChanged) =>
          \E i \in 1..Len(calls) : calls[i].op = "setState"
     /\ (formState.isChanged /\ ~formState'.isChanged) =>
          (\E i \in 1..Len(calls) : calls[i].op = "reset") \/ ~mounted'
     /\ (state.isChanged /\ ~state'.isChanged) =>
          (\E i \in 1..Len(calls) : calls[i].op = "reset") \/ ~mounted'
     /\ (mounted' /\ calls = <<>>) =>
          formState' = formState /\ state' = state]_vars

\* C11 witness: a render with no pending call and another external value
\* than the render before has left an override as it was.
C11_Witness ==
  /\ mounted /\ calls = <<>> /\ batch = <<>>
  /\ prevValue # ExternalValue
  /\ before1.isChanged /\ formState = before1
  /\ before2.isChanged /\ state = before2

\* C12: a render schedules no state update of its own: every pending update
\* was queued by a call of setState or reset, so after a render with no such
\* call nothing is pending and React has no reason to render again, also when
\* every render is given another external value than the one before.
C12_NoRenderLoop ==
  /\ Len(queue1) = Len(calls)
  /\ Len(queue2) = Len(calls)

\* C12 witness: the external value has changed from one render to the next,
\* no call was ever made, and nothing is pending.
C12_Witness ==
  /\ mounted /\ ~touched
  /\ prevValue # ExternalValue
  /\ queue1 = <<>> /\ queue2 = <<>>

\* C13, for one implementation: the state a render leaves is the calls of the
\* batch applied one after the other, in call order, to the state the render
\* started with (a function called while tracking is given an external
\* value; C5 is about which render's).
C13_For(st, bef) ==
  mounted =>
    /\ \E t \in {prevValue, ExternalValue} : st = AfterCalls(bef, batch, t)
    /\ (batch # <<>> /\ Last(batch).op = "reset") => ~st.isChanged
    /\ (batch # <<>> /\ IsPlain(Last(batch))) =>
         st = [isChanged |-> TRUE, value |-> Last(batch).value.value]
    /\ (Len(batch) >= 2 /\ IsFn(Last(batch)) /\ batch[Len(batch) - 1].op = "reset") =>
         \E t \in {prevValue, ExternalValue} :
           st = [isChanged |-> TRUE, value |-> Call(Last(batch).value, <<t>>)]

\* C13: a batch that mixes setState and reset is folded in call order:
\* setState then reset leaves Tracking, reset then setState(x) leaves
\* Overridden(x), and setState(f) after reset gets the external value.
C13_SequentialFold ==
  /\ C13_For(formState, before1)
  /\ C13_For(state, before2)

\* C13 witness: on an override of 5, reset and then prev => prev + 1 in one
\* batch, processed by a render given 1: the override is 2, not 6.
C13_Witness ==
  /\ mounted
  /\ before1 = [isChanged |-> TRUE, value |-> 5]
  /\ before2 = [isChanged |-> TRUE, value |-> 5]
  /\ batch = <<[op |-> "reset"], [op |-> "setState", value |-> UpdaterFn("inc")]>>
  /\ prevValue = 1 /\ ExternalValue = 1
  /\ formState = [isChanged |-> TRUE, value |-> 2]
  /\ state = [isChanged |-> TRUE, value |-> 2]
  /\ returned1.state = 2 /\ returned2.state = 2

\* C14: the external value is resolved on every call of the hook, whatever
\* the override state: an initialState function is called exactly once per
\* call of the hook (a literal never), while tracking and while overridden
\* alike, and while overridden the value the hook returns is the stored
\* override, not the result of that call.
C14_For(st, ret, fault, thunkCalls) ==
  /\ fault # NoFault => thunkCalls = 1
  /\ (mounted /\ fault = NoFault) =>
       /\ thunkCalls = (IF initialState.kind = "function" THEN 1 ELSE 0)
       /\ st.isChanged => ret.state = st.value

C14_ResolvedEveryCall ==
  /\ C14_For(formState, returned1, fault1, thunkCalls1)
  /\ C14_For(state, returned2, fault2, thunkCalls2)

\* An overridden instance rendered with a function whose result differs from
\* the override: the function was called once and the override is returned.
C14_Witness ==
  /\ mounted /\ fault1 = NoFault /\ fault2 = NoFault
  /\ initialState.kind = "function"
  /\ formState.isChanged /\ state.isChanged
  /\ thunkCalls1 = 1 /\ thunkCalls2 = 1
  /\ returned1.state = formState.value /\ returned2.state = state.value
  /\ returned2.state # ExternalValue

\* C15: when the initialState function throws, the call of the hook ends with
\* that fault and with no error of the hook's own, while tracking and while
\* overridden alike; the override state, the pending updates and the handles
\* are left as they were, and the next call of the hook that returns folds
\* the pending calls on that state and returns its effective value.
C15_Step(st, q, cbs, ret, fault) ==
  /\ fault' # NoFault =>
       /\ fault' = InitialStateFault
       /\ st' = st /\ q' = q /\ cbs' = cbs /\ ret' = ret
       /\ mounted' = mounted
  /\ (fault # NoFault /\ fault' = NoFault /\ mounted') =>
       /\ \E t \in {ExternalValue, ExternalValue'} : st' = AfterCalls(st, calls, t)
       /\ ret'.state = Effective(st', ExternalValue')

C15_FaultPropagates ==
  [][/\ C15_Step(formState, queue1, callbacks1, returned1, fault1)
     /\ C15_Step(state, queue2, callbacks2, returned2, fault2)]_vars

\* The fault of the initialState function has left the hook while the
\* instance is overridden, and the override is still there.
C15_Witness ==
  /\ mounted /\ calls = <<>>
  /\ fault1 = InitialStateFault /\ fault2 = InitialStateFault
  /\ formState.isChanged /\ state.isChanged
  /\ returned1.state = formState.value /\ returned2.state = state.value
  /\ state.value # ExternalValue

\* The value a render returns is the effective value of the state it leaves
\* under the value it was passed; no earlier external value enters.
C16_Pure(st, ret) ==
  (mounted' /\ fault2' = NoFault) => ret'.state = Effective(st', ExternalValue')

\* A render returns with the literal the latest returning render was passed.
SameLiteralAgain ==
  /\ mounted /\ mounted'
  /\ fault1' = NoFault /\ fault2' = NoFault
  /\ initialState.kind = "value" /\ initialState' = initialState

\* C16 as stated: the value returned is a function of the override state and
\* the value passed only, and two renders with the same literal and no
\* setState call in between return the same value.
C16_SameLiteralNoSetState ==
  [][/\ C16_Pure(formState, returned1) /\ C16_Pure(state, returned2)
     /\ (SameLiteralAgain /\ \A i \in 1..Len(calls) : calls[i].op # "setState") =>
          /\ returned1'.state = returned1.state
          /\ returned2'.state = returned2.state]_vars

\* C16, amended: the value returned is a function of the override state and
\* the value passed only, and two renders with the same literal and neither
\* a setState nor a reset call in between return the same value.
C16_SameLiteralNoCall ==
  [][/\ C16_Pure(formState, returned1) /\ C16_Pure(state, returned2)
     /\ (SameLiteralAgain /\ calls = <<>>) =>
          /\ returned1'.state = returned1.state
          /\ returned2'.state = returned2.state]_vars

\* An overridden instance rendered again with the literal of the render
\* before, no call in between: the state and the value returned are those of
\* the render before, and differ from the literal.
C16_Witness ==
  /\ mounted /\ touched /\ calls = <<>> /\ batch = <<>>
  /\ fault1 = NoFault /\ fault2 = NoFault
  /\ initialState.kind = "value" /\ prevValue = ExternalValue
  /\ before1 = formState /\ before2 = state
  /\ formState.isChanged /\ state.isChanged
  /\ returned1.state = Effective(before1, prevValue)
  /\ returned2.state = Effective(before2, prevValue)
  /\ returned2.state # ExternalValue

\* C17: the override state does not outlive the instance: a new instance
\* holds no override and no pending update, and until its first call its
\* renders track the value they are passed, also when the instance before it
\* was destroyed while overridden.
C17_For(st, q, ret) ==
  /\ ~mounted => st = Unchanged /\ q = <<>>
  /\ (mounted /\ ~touched) => ~st.isChanged /\ ret.state = ExternalValue

C17_FreshInstanceTracks ==
  /\ C17_For(formState, queue1, returned1)
  /\ C17_For(state, queue2, returned2)

\* The first render of an instance whose predecessor was destroyed with an
\* override other than the value passed now.
C17_Witness ==
  /\ mounted /\ ~touched /\ fault1 = NoFault /\ fault2 = NoFault
  /\ lost1.isChanged /\ lost2.isChanged
  /\ lost1.value # ExternalValue /\ lost2.value # ExternalValue
  /\ ~formState.isChanged /\ ~state.isChanged
  /\ returned1.state = ExternalValue /\ returned2.state = ExternalValue

\* C18: a call of the setState callback an earlier render returned has the
\* effect of the same call of the callback the latest render returned: for
\* every payload, plain or function, tracking or overridden, the next render
\* leaves the same state.  In the useReducer version the two are one
\* callback, which reads nothing but dispatch and its argument.
C18_StaleHandleSameEffect ==
  mounted =>
    /\ \A value \in Payloads :
         useState1(formState, Append(queue1, setState1(held1, value)))
           = useState1(formState,
                       Append(queue1, setState1(callbacks1.setState, value)))
    /\ held2 = callbacks2.setState

\* C19: the useState version and the useReducer version, run side by side on
\* the same renders, setState calls and reset calls, return the same value
\* at every render.
C19_VersionsEquivalent ==
  mounted => returned1.state = returned2.state

====
